---------------------------- MODULE Spec2Model ----------------------------
(***************************************************************************)
(* A model of SAGE: the launcher (main.py), the session bootstrap          *)
(* (oterm/app/auto_chat.py) and the manifest picker with its ingestion     *)
(* pipeline (oterm/app/image_browser.py).                                  *)
(*                                                                         *)
(* A Python str is a sequence of Unicode code points; every string         *)
(* constant below is followed by a comment quoting its text.  A Python     *)
(* value whose type matters is a record with a "type" field.  A call that  *)
(* may raise yields Ok(value) or Raise(message).                           *)
(***************************************************************************)
EXTENDS Integers, Sequences, FiniteSets, TLC

VARIABLES
    pc,            \* position of the main.py process
    stdout,        \* tags of what this process has printed, in order
    exitStatus,    \* exit status of the process, NotExited while it runs
    enterPressed,  \* input("Press Enter to exit...") has returned
    runs,          \* how many times main.py has been started
    flagFile,      \* the file .model_built exists
    ollamaOnPath,  \* shutil.which("ollama") finds the tool
    bootstrap,     \* how ensure_model_exists ended in this process
    fs,            \* what home/Downloads and home/Documents are on disk
    DEFAULT_ROOT,  \* image_browser.DEFAULT_ROOT, set when the module loads
    chat,          \* the ChatModel saved by create_sage_session
    screen,        \* the ImageSelect screen: "closed" or "open"
    dtPath,        \* DirectoryTree.path, the browse root
    dismissed,     \* the value the screen was last dismissed with
    lastEvent,     \* the last picker event handled
    uncaught,      \* an exception escaped a picker handler
    picks,         \* how many times the picker was opened in this TUI
    input,         \* argument of the pure function being applied
    output         \* its result

vars == <<pc, stdout, exitStatus, enterPressed, runs, flagFile, ollamaOnPath,
          bootstrap, fs, DEFAULT_ROOT, chat, screen, dtPath, dismissed,
          lastEvent, uncaught, picks, input, output>>

appVars == <<pc, stdout, exitStatus, enterPressed, runs, flagFile,
             ollamaOnPath, bootstrap, fs, DEFAULT_ROOT, chat, screen, dtPath,
             dismissed, lastEvent, uncaught, picks>>

pureVars == <<input, output>>

-----------------------------------------------------------------------------
(* Bounds of the model. *)

\* Text lengths run over 0..LenSpread and MAX_CHARS-LenSpread..MAX_CHARS+LenSpread.
LenSpread == 5
\* Number of rotations of the alphabet used to generate texts.
NumRotations == 4
\* Bodies and filenames given to the prompt builder have at most this many characters.
MaxBodyLen == 2
\* A workbook has at most this many sheets.
MaxSheets == 2
\* A sheet has at most this many rows.
MaxRows == 2
\* A row has at most this many cells.
MaxCols == 2
\* main.py is started at most this many times.
MaxRuns == 2
\* The picker is opened at most this many times in one TUI session.
MaxPicks == 2

-----------------------------------------------------------------------------
(* Python values. *)

None == [type |-> "NoneType"]
PyStr(s) == [type |-> "str", val |-> s]
PyInt(n) == [type |-> "int", val |-> n]
PyBool(b) == [type |-> "bool", val |-> b]

Ok(v) == [ok |-> TRUE, val |-> v]
Raise(msg) == [ok |-> FALSE, exc |-> msg]

\* bool(v): what `v or ...` tests.
Truthy(v) ==
    CASE v.type = "NoneType" -> FALSE
      [] v.type = "str" -> Len(v.val) > 0
      [] v.type = "int" -> v.val # 0
      [] v.type = "bool" -> v.val

\* a or b
PyOr(a, b) == IF Truthy(a) THEN a ELSE b

RECURSIVE Digits(_)
\* The decimal digits of a natural number.
Digits(n) ==
    IF n < 10 THEN <<48 + n>> ELSE Digits(n \div 10) \o <<48 + (n % 10)>>

\* str(v)
Str(v) ==
    CASE v.type = "NoneType" -> <<78, 111, 110, 101>> (* "None" *)
      [] v.type = "str" -> v.val
      [] v.type = "int" ->
           IF v.val < 0 THEN <<45>> \o Digits(-v.val) ELSE Digits(v.val)
      [] v.type = "bool" -> IF v.val THEN <<84, 114, 117, 101>> (* "True" *)
                            ELSE <<70, 97, 108, 115, 101>> (* "False" *)

-----------------------------------------------------------------------------
(* Python str operations. *)

\* sub in s
Contains(s, sub) ==
    \E i \in 0..(Len(s) - Len(sub)) : SubSeq(s, i + 1, i + Len(sub)) = sub

\* s.startswith(p)
StartsWith(s, p) == Len(p) <= Len(s) /\ SubSeq(s, 1, Len(p)) = p

\* s.endswith(p)
EndsWith(s, p) ==
    Len(p) <= Len(s) /\ SubSeq(s, Len(s) - Len(p) + 1, Len(s)) = p

RECURSIVE Join(_, _)
\* sep.join(parts)
Join(sep, parts) ==
    IF parts = <<>> THEN <<>>
    ELSE IF Len(parts) = 1 THEN parts[1]
    ELSE parts[1] \o sep \o Join(sep, Tail(parts))

\* s.lower(), on ASCII text
Lower(s) == [i \in 1..Len(s) |-> IF s[i] \in 65..90 THEN s[i] + 32 ELSE s[i]]

\* s.rfind(c) + 1: the last position of character c in s, 0 when absent.
RFind(s, c) ==
    LET at == {i \in 1..Len(s) : s[i] = c}
    IN  IF at = {} THEN 0 ELSE CHOOSE i \in at : \A j \in at : j <= i

RECURSIVE Split(_, _)
\* s.split(c)
Split(s, c) ==
    LET at == {i \in 1..Len(s) : s[i] = c}
    IN  IF at = {} THEN <<s>>
        ELSE LET i == CHOOSE k \in at : \A j \in at : k <= j
             IN  <<SubSeq(s, 1, i - 1)>> \o Split(SubSeq(s, i + 1, Len(s)), c)

RECURSIVE Flatten(_)
\* The concatenation of a sequence of sequences.
Flatten(ss) == IF ss = <<>> THEN <<>> ELSE Head(ss) \o Flatten(Tail(ss))

-----------------------------------------------------------------------------
(* pathlib.  A Path is [abs, parts]: whether it is absolute, and its        *)
(* components.                                                              *)

Slash == 47
Dot == 46

\* Path(s): empty and "." components are dropped.
PathOf(s) ==
    [abs |-> Len(s) > 0 /\ s[1] = Slash,
     parts |-> SelectSeq(Split(s, Slash), LAMBDA c : c # <<>> /\ c # <<Dot>>)]

\* p / name
Div(p, name) == [abs |-> p.abs, parts |-> Append(p.parts, name)]

\* p.name
Name(p) == IF p.parts = <<>> THEN <<>> ELSE p.parts[Len(p.parts)]

\* p.suffix: the name from its last dot, unless that dot is its first or
\* its last character.
Suffix(p) ==
    LET name == Name(p)
        i == RFind(name, Dot)
    IN  IF 1 < i /\ i < Len(name) THEN SubSeq(name, i, Len(name)) ELSE <<>>

-----------------------------------------------------------------------------
(* image_browser.py: truncation and the prompt. *)

MAX_CHARS == 20000

\* _truncate_for_model with < for <=.
TruncateStrict(text, limit) ==
    IF Len(text) < limit THEN <<text, FALSE>>
    ELSE <<SubSeq(text, 1, limit), TRUE>>

\* _truncate_for_model(text, limit): the pair (body, truncated).
_truncate_for_model(text, limit) ==
    IF Len(text) <= limit THEN <<text, FALSE>>
    ELSE <<SubSeq(text, 1, limit), TRUE>>

\* The note appended to the prompt of a truncated manifest.
TruncationNote ==
    <<10, 10, 91, 78, 111, 116, 101, 58, 32, 73, 110, 112, 117, 116, 32, 116, 114, 117, 110, 99, 97, 116, 101, 100, 32, 102, 111, 114, 32, 105, 110, 105, 116, 105, 97, 108, 32, 112, 97, 115, 115, 46, 93>> (* "\n\n[Note: Input truncated for initial pass.]" *)

PromptHeader ==
    <<89, 111, 117, 32, 97, 114, 101, 32, 97, 115, 115, 105, 115, 116, 105, 110, 103, 32, 97, 110, 32, 101, 120, 112, 111, 114, 116, 8209, 99, 111, 109, 112, 108, 105, 97, 110, 99, 101, 32, 97, 110, 97, 108, 121, 115, 116, 46, 32, 82, 101, 97, 100, 32, 116, 104, 101, 32, 109, 97, 110, 105, 102, 101, 115, 116, 32, 116, 101, 120, 116, 32, 97, 110, 100, 32, 112, 114, 111, 100, 117, 99, 101, 32, 97, 32, 99, 111, 110, 99, 105, 115, 101, 44, 32, 102, 97, 99, 116, 117, 97, 108, 32, 111, 117, 116, 112, 117, 116, 46, 10>> (* "You are assisting an export\u2011compliance analyst. Read the manifest text and produce a concise, factual output.\n" *)
    \o <<69, 120, 116, 114, 97, 99, 116, 32, 116, 104, 101, 115, 101, 32, 105, 102, 32, 112, 114, 101, 115, 101, 110, 116, 32, 40, 117, 115, 101, 32, 39, 78, 47, 65, 39, 32, 119, 104, 101, 110, 32, 109, 105, 115, 115, 105, 110, 103, 41, 58, 10>> (* "Extract these if present (use 'N/A' when missing):\n" *)
    \o <<8226, 32, 79, 114, 105, 103, 105, 110, 32, 99, 111, 117, 110, 116, 114, 121, 32, 32, 8226, 32, 68, 101, 115, 116, 105, 110, 97, 116, 105, 111, 110, 32, 99, 111, 117, 110, 116, 114, 121, 32, 32, 8226, 32, 83, 104, 105, 112, 112, 101, 114, 32, 47, 32, 67, 111, 110, 115, 105, 103, 110, 101, 101, 32, 47, 32, 69, 110, 100, 8209, 117, 115, 101, 114, 10>> (* "\u2022 Origin country  \u2022 Destination country  \u2022 Shipper / Consignee / End\u2011user\n" *)
    \o <<8226, 32, 73, 116, 101, 109, 115, 47, 109, 111, 100, 101, 108, 115, 32, 40, 101, 46, 103, 46, 44, 32, 71, 80, 85, 32, 110, 97, 109, 101, 115, 41, 32, 32, 8226, 32, 81, 117, 97, 110, 116, 105, 116, 105, 101, 115, 32, 32, 8226, 32, 72, 83, 47, 69, 67, 67, 78, 32, 99, 111, 100, 101, 115, 32, 32, 8226, 32, 68, 97, 116, 101, 115, 32, 47, 32, 80, 79, 32, 47, 32, 73, 110, 118, 111, 105, 99, 101, 32, 35, 10>> (* "\u2022 Items/models (e.g., GPU names)  \u2022 Quantities  \u2022 HS/ECCN codes  \u2022 Dates / PO / Invoice #\n" *)
    \o <<84, 104, 101, 110, 32, 112, 114, 111, 118, 105, 100, 101, 32, 97, 32, 50, 8211, 51, 32, 115, 101, 110, 116, 101, 110, 99, 101, 32, 115, 117, 109, 109, 97, 114, 121, 32, 111, 102, 32, 119, 104, 97, 116, 32, 116, 104, 105, 115, 32, 100, 111, 99, 117, 109, 101, 110, 116, 32, 105, 115, 32, 97, 98, 111, 117, 116, 46, 10>> (* "Then provide a 2\u20133 sentence summary of what this document is about.\n" *)
    \o <<68, 111, 32, 110, 111, 116, 32, 115, 112, 101, 99, 117, 108, 97, 116, 101, 32, 111, 114, 32, 97, 100, 118, 105, 115, 101, 8212, 106, 117, 115, 116, 32, 101, 120, 116, 114, 97, 99, 116, 32, 97, 110, 100, 32, 115, 117, 109, 109, 97, 114, 105, 122, 101, 46, 10, 10>> (* "Do not speculate or advise\u2014just extract and summarize.\n\n" *)

BeginMarker == <<45, 45, 45, 32, 66, 69, 71, 73, 78, 32, 77, 65, 78, 73, 70, 69, 83, 84, 58, 32>> (* "--- BEGIN MANIFEST: " *)
BeginMarkerEnd == <<32, 45, 45, 45, 10>> (* " ---\n" *)
EndMarker == <<10, 45, 45, 45, 32, 69, 78, 68, 32, 77, 65, 78, 73, 70, 69, 83, 84, 32, 45, 45, 45>> (* "\n--- END MANIFEST ---" *)

\* _build_manifest_prompt that appends the note whatever `truncated` is.
BuildPromptAlwaysNote(filename, body, truncated) ==
    PromptHeader \o BeginMarker \o filename \o BeginMarkerEnd \o body
        \o EndMarker \o TruncationNote

\* _build_manifest_prompt(filename, body, truncated)
_build_manifest_prompt(filename, body, truncated) ==
    LET note == IF truncated THEN TruncationNote ELSE <<>>
    IN  PromptHeader \o BeginMarker \o filename \o BeginMarkerEnd \o body
            \o EndMarker \o note

-----------------------------------------------------------------------------
(* What a path holds on disk, as the reading libraries see it.             *)

Missing == [kind |-> "missing"]
Corrupt == [kind |-> "corrupt"]
TextFile(t) == [kind |-> "text", text |-> t]
PdfFile(ps) == [kind |-> "pdf", pages |-> ps]
DocxFile(ps) == [kind |-> "docx", paragraphs |-> ps]
\* A workbook: its sheets in order, each its rows in order, each row its
\* cell values, None for an empty cell.
XlsxFile(ss) == [kind |-> "xlsx", sheets |-> ss]

\* The messages of the exceptions the libraries raise (the path that
\* follows in the real message is left out).
NoSuchFile == <<91, 69, 114, 114, 110, 111, 32, 50, 93, 32, 78, 111, 32, 115, 117, 99, 104, 32, 102, 105, 108, 101, 32, 111, 114, 32, 100, 105, 114, 101, 99, 116, 111, 114, 121>> (* "[Errno 2] No such file or directory" *)
FitzNoFile == <<110, 111, 32, 115, 117, 99, 104, 32, 102, 105, 108, 101>> (* "no such file" *)
FitzBadFile == <<70, 97, 105, 108, 101, 100, 32, 116, 111, 32, 111, 112, 101, 110, 32, 102, 105, 108, 101>> (* "Failed to open file" *)
DocxNoPackage == <<80, 97, 99, 107, 97, 103, 101, 32, 110, 111, 116, 32, 102, 111, 117, 110, 100>> (* "Package not found" *)
NotAZipFile == <<70, 105, 108, 101, 32, 105, 115, 32, 110, 111, 116, 32, 97, 32, 122, 105, 112, 32, 102, 105, 108, 101>> (* "File is not a zip file" *)

\* path.read_text(encoding="utf-8", errors="ignore")
ReadText(disk) ==
    CASE disk.kind = "missing" -> Raise(NoSuchFile)
      [] disk.kind = "text" -> Ok(disk.text)

\* [page.get_text() for page in fitz.open(path)]
FitzOpen(disk) ==
    CASE disk.kind = "pdf" -> Ok(disk.pages)
      [] disk.kind = "missing" -> Raise(FitzNoFile)
      [] OTHER -> Raise(FitzBadFile)

\* [p.text for p in docx.Document(path).paragraphs]
DocxDocument(disk) ==
    CASE disk.kind = "docx" -> Ok(disk.paragraphs)
      [] OTHER -> Raise(DocxNoPackage)

\* openpyxl.load_workbook(path, read_only=True), its sheets' rows as
\* iter_rows(values_only=True) yields them
LoadWorkbook(disk) ==
    CASE disk.kind = "xlsx" -> Ok(disk.sheets)
      [] disk.kind = "missing" -> Raise(NoSuchFile)
      [] OTHER -> Raise(NotAZipFile)

Tab == <<9>>
Newline == <<10>>

\* "\t".join(str(cell or "") for cell in row)
RowText(row) ==
    Join(Tab, [i \in 1..Len(row) |-> Str(PyOr(row[i], PyStr(<<>>)))])

\* The xlsx branch of load_manifest_text on an opened workbook.
WorkbookText(sheets) ==
    LET text_chunks ==
            Flatten([s \in 1..Len(sheets) |->
                        [r \in 1..Len(sheets[s]) |-> RowText(sheets[s][r])]])
    IN  Join(Newline, text_chunks)

UnsupportedPrefix == <<91, 85, 110, 115, 117, 112, 112, 111, 114, 116, 101, 100, 32, 102, 105, 108, 101, 32, 116, 121, 112, 101, 58, 32>> (* "[Unsupported file type: " *)
CloseBracket == <<93>> (* "]" *)

TextSuffixes == {<<46, 116, 120, 116>> (* ".txt" *),
                 <<46, 99, 115, 118>> (* ".csv" *),
                 <<46, 106, 115, 111, 110>> (* ".json" *)}
PdfSuffix == <<46, 112, 100, 102>> (* ".pdf" *)
DocxSuffix == <<46, 100, 111, 99, 120>> (* ".docx" *)
XlsxSuffixes == {<<46, 120, 108, 115, 120>> (* ".xlsx" *),
                 <<46, 120, 108, 115, 109>> (* ".xlsm" *)}

\* load_manifest_text that does not lower-case the suffix.
LoadManifestTextCaseSensitive(path, disk) ==
    LET suffix == Suffix(path)
    IN  IF suffix \in TextSuffixes THEN ReadText(disk)
        ELSE IF suffix = PdfSuffix THEN
            LET doc == FitzOpen(disk)
            IN  IF doc.ok THEN Ok(Join(Newline, doc.val)) ELSE doc
        ELSE IF suffix = DocxSuffix THEN
            LET d == DocxDocument(disk)
            IN  IF d.ok THEN Ok(Join(Newline, d.val)) ELSE d
        ELSE IF suffix \in XlsxSuffixes THEN
            LET wb == LoadWorkbook(disk)
            IN  IF wb.ok THEN Ok(WorkbookText(wb.val)) ELSE wb
        ELSE Ok(UnsupportedPrefix \o suffix \o CloseBracket)

\* load_manifest_text(path), `disk` being what the path holds.
load_manifest_text(path, disk) ==
    LET suffix == Lower(Suffix(path))
    IN  IF suffix \in TextSuffixes THEN ReadText(disk)
        ELSE IF suffix = PdfSuffix THEN
            LET doc == FitzOpen(disk)
            IN  IF doc.ok THEN Ok(Join(Newline, doc.val)) ELSE doc
        ELSE IF suffix = DocxSuffix THEN
            LET d == DocxDocument(disk)
            IN  IF d.ok THEN Ok(Join(Newline, d.val)) ELSE d
        ELSE IF suffix \in XlsxSuffixes THEN
            LET wb == LoadWorkbook(disk)
            IN  IF wb.ok THEN Ok(WorkbookText(wb.val)) ELSE wb
        ELSE Ok(UnsupportedPrefix \o suffix \o CloseBracket)

-----------------------------------------------------------------------------
(* The file system the picker browses. *)

\* Path.home()
Home == [abs |-> TRUE, parts |-> <<<<104, 111, 109, 101>> (* "home" *),
                                  <<117>> (* "u" *)>>]
\* The working directory of the TUI process: launch_tui's cwd.
Cwd == [abs |-> TRUE, parts |-> <<<<111, 112, 116>> (* "opt" *),
                                 <<83, 65, 71, 69>> (* "SAGE" *),
                                 <<111, 116, 101, 114, 109>> (* "oterm" *),
                                 <<115, 114, 99>> (* "src" *)>>]
Downloads == <<68, 111, 119, 110, 108, 111, 97, 100, 115>> (* "Downloads" *)
Documents == <<68, 111, 99, 117, 109, 101, 110, 116, 115>> (* "Documents" *)
ManifestDir == Div(Home, <<109, 97, 110, 105, 102, 101, 115, 116, 115>> (* "manifests" *))

\* The letters texts are generated from.
Alphabet == <<97, 98, 99, 100, 101, 102, 103>> (* "abcdefg" *)

\* A text of n characters: the alphabet repeated, begun at its r-th letter.
GenText(n, r) == [i \in 1..n |-> Alphabet[((i + r) % Len(Alphabet)) + 1]]

\* The files of the manifests directory.
Files ==
    { [path |-> Div(ManifestDir, <<97, 46, 116, 120, 116>> (* "a.txt" *)),
       disk |-> TextFile(<<79, 114, 105, 103, 105, 110, 58, 32, 74, 97, 112, 97, 110, 10, 68, 101, 115, 116, 58, 32, 85, 83, 65>> (* "Origin: Japan\nDest: USA" *))],
      [path |-> Div(ManifestDir, <<98, 105, 103, 46, 116, 120, 116>> (* "big.txt" *)),
       disk |-> TextFile(GenText(MAX_CHARS + 1, 0))],
      [path |-> Div(ManifestDir, <<78, 79, 84, 69, 83, 46, 84, 88, 84>> (* "NOTES.TXT" *)),
       disk |-> TextFile(<<110>> (* "n" *))],
      [path |-> Div(ManifestDir, <<103, 111, 110, 101, 46, 116, 120, 116>> (* "gone.txt" *)),
       disk |-> Missing],
      [path |-> Div(ManifestDir, <<115, 99, 97, 110, 46, 112, 100, 102>> (* "scan.pdf" *)),
       disk |-> PdfFile(<<<<112, 49>> (* "p1" *),
                          <<112, 50>> (* "p2" *)>>)],
      [path |-> Div(ManifestDir, <<103, 111, 110, 101, 46, 112, 100, 102>> (* "gone.pdf" *)),
       disk |-> Missing],
      [path |-> Div(ManifestDir, <<98, 97, 100, 46, 112, 100, 102>> (* "bad.pdf" *)),
       disk |-> Corrupt],
      [path |-> Div(ManifestDir, <<108, 101, 116, 116, 101, 114, 46, 100, 111, 99, 120>> (* "letter.docx" *)),
       disk |-> DocxFile(<<<<68, 101, 97, 114>> (* "Dear" *),
                           <<83, 105, 114>> (* "Sir" *)>>)],
      [path |-> Div(ManifestDir, <<98, 97, 100, 46, 100, 111, 99, 120>> (* "bad.docx" *)),
       disk |-> Corrupt],
      [path |-> Div(ManifestDir, <<98, 111, 111, 107, 46, 120, 108, 115, 120>> (* "book.xlsx" *)),
       disk |-> XlsxFile(<< << <<PyStr(<<65>> (* "A" *)),
                                 PyStr(<<66>> (* "B" *))>>,
                               <<PyStr(<<49>> (* "1" *)),
                                 PyStr(<<50>> (* "2" *))>> >> >>)],
      [path |-> Div(ManifestDir, <<98, 97, 100, 46, 120, 108, 115, 109>> (* "bad.xlsm" *)),
       disk |-> Corrupt],
      [path |-> Div(ManifestDir, <<111, 108, 100, 46, 100, 111, 99>> (* "old.doc" *)),
       disk |-> Corrupt],
      [path |-> Div(ManifestDir, <<68, 65, 84, 65, 46, 88, 77, 76>> (* "DATA.XML" *)),
       disk |-> TextFile(<<60, 120, 47, 62>> (* "<x/>" *))],
      [path |-> Div(ManifestDir, <<82, 69, 65, 68, 77, 69>> (* "README" *)),
       disk |-> TextFile(<<114>> (* "r" *))],
      [path |-> Div(ManifestDir, <<46, 104, 105, 100, 100, 101, 110>> (* ".hidden" *)),
       disk |-> TextFile(<<104>> (* "h" *))],
      [path |-> Div(ManifestDir, <<103, 111, 110, 101, 46, 120, 121, 122>> (* "gone.xyz" *)),
       disk |-> Missing] }

\* The directories that always exist.
StaticDirs ==
    { <<>>, <<Home.parts[1]>>, Home.parts, ManifestDir.parts,
      <<Cwd.parts[1]>>, SubSeq(Cwd.parts, 1, 2), SubSeq(Cwd.parts, 1, 3),
      Cwd.parts }

FsKinds == {"absent", "file", "dir"}

\* The absolute components of p: a relative path is taken from Cwd.
Resolve(p) == IF p.abs THEN p.parts ELSE Cwd.parts \o p.parts

\* What path p is on disk, f telling what Downloads and Documents are.
KindOf(p, f) ==
    LET parts == Resolve(p)
    IN  IF parts \in StaticDirs THEN "dir"
        ELSE IF parts = Div(Home, Downloads).parts THEN f.Downloads
        ELSE IF parts = Div(Home, Documents).parts THEN f.Documents
        ELSE IF \E x \in Files : x.path.parts = parts /\ x.disk.kind # "missing"
             THEN "file"
        ELSE "absent"

\* p.exists()
Exists(p, f) == KindOf(p, f) # "absent"

\* p.is_dir()
IsDir(p, f) == KindOf(p, f) = "dir"

\* get_default_pick_dir(), f telling what Downloads and Documents are.
get_default_pick_dir(f) ==
    IF Exists(Div(Home, Downloads), f) THEN Div(Home, Downloads)
    ELSE IF Exists(Div(Home, Documents), f) THEN Div(Home, Documents)
    ELSE Home

-----------------------------------------------------------------------------
(* image_browser.py: the handlers of ImageSelect. *)

PyDict(filename, hidden) ==
    [type |-> "dict", filename |-> filename, hidden |-> hidden]

ErrorPrefix == <<91, 69, 114, 114, 111, 114, 32, 114, 101, 97, 100, 105, 110, 103, 32, 102, 105, 108, 101, 32, 39>> (* "[Error reading file '" *)
ErrorInfix == <<39, 58, 32>> (* "': " *)

\* What a handler did: dismissed the screen with a value, or let an
\* exception escape.
Dismiss(v) == [raised |-> FALSE, value |-> v]
Escapes(msg) == [raised |-> TRUE, exc |-> msg]

\* on_file_selected without its try/except.
OnFileSelectedNoExcept(path, disk) ==
    LET raw == load_manifest_text(path, disk)
    IN  IF raw.ok
        THEN LET t == _truncate_for_model(raw.val, MAX_CHARS)
             IN  Dismiss(PyDict(Name(path),
                                _build_manifest_prompt(Name(path), t[1], t[2])))
        ELSE Escapes(raw.exc)

\* on_file_selected that dismisses with the content alone.
OnFileSelectedBareContent(path, disk) ==
    LET raw == load_manifest_text(path, disk)
        content ==
            IF raw.ok
            THEN LET t == _truncate_for_model(raw.val, MAX_CHARS)
                 IN  _build_manifest_prompt(Name(path), t[1], t[2])
            ELSE ErrorPrefix \o Name(path) \o ErrorInfix \o raw.exc
                     \o CloseBracket
    IN  Dismiss(PyStr(content))

\* ImageSelect.on_file_selected(ev), `disk` being what ev.path holds.
on_file_selected(path, disk) ==
    LET raw == load_manifest_text(path, disk)
        content ==
            IF raw.ok
            THEN LET t == _truncate_for_model(raw.val, MAX_CHARS)
                 IN  _build_manifest_prompt(Name(path), t[1], t[2])
            ELSE ErrorPrefix \o Name(path) \o ErrorInfix \o raw.exc
                     \o CloseBracket
    IN  Dismiss(PyDict(Name(path), content))

\* ImageSelect.action_cancel()
action_cancel == Dismiss(PyStr(<<>>))

\* on_root_changed that only asks whether the path exists.
OnRootChangedExistsOnly(current, value, f) ==
    LET path == PathOf(value)
    IN  IF ~Exists(path, f) THEN current ELSE path

\* ImageSelect.on_root_changed(ev): the DirectoryTree's path afterwards.
on_root_changed(current, value, f) ==
    LET path == PathOf(value)
    IN  IF ~Exists(path, f) \/ ~IsDir(path, f) THEN current ELSE path

\* The values typed into the root input box.
RootValues ==
    { <<>> (* "" *),
      <<47, 104, 111, 109, 101, 47, 117, 47, 109, 97, 110, 105, 102, 101, 115, 116, 115>> (* "/home/u/manifests" *),
      <<47, 104, 111, 109, 101, 47, 117, 47, 46, 47, 109, 97, 110, 105, 102, 101, 115, 116, 115, 47>> (* "/home/u/./manifests/" *),
      <<109, 97, 110, 105, 102, 101, 115, 116, 115>> (* "manifests" *),
      <<47, 104, 111, 109, 101, 47, 117, 47, 109, 97, 110, 105, 102, 101, 115, 116, 115, 47, 97, 46, 116, 120, 116>> (* "/home/u/manifests/a.txt" *),
      <<47, 104, 111, 109, 101, 47, 117, 47, 68, 111, 119, 110, 108, 111, 97, 100, 115>> (* "/home/u/Downloads" *),
      <<47, 110, 111, 119, 104, 101, 114, 101>> (* "/nowhere" *) }

-----------------------------------------------------------------------------
(* main.py and auto_chat.py. *)

\* The default model_name of ensure_model_exists.
DefaultModelName == <<109, 105, 115, 116, 114, 97, 108, 45, 55, 98, 45, 115, 97, 103, 101>> (* "mistral-7b-sage" *)

\* The model of the ChatModel create_sage_session makes.
SessionModel == <<115, 97, 103, 101, 95, 118, 48, 46, 57>> (* "sage_v0.9" *)
SessionName == <<83, 65, 71, 69, 32, 83, 101, 115, 115, 105, 111, 110>> (* "SAGE Session" *)

ChatModel(model, name) == [type |-> "ChatModel", model |-> model, name |-> name]

\* create_sage_session(tabs): the chat model it saves.
create_sage_session == ChatModel(SessionModel, SessionName)

\* What `ollama list` can answer: its return code and its output.
OllamaListResults ==
    { [rc |-> 0, stdout |-> <<78, 65, 77, 69, 10>> (* "NAME\n" *)],
      [rc |-> 0, stdout |-> <<78, 65, 77, 69, 10, 109, 105, 115, 116, 114, 97, 108, 45, 55, 98, 45, 115, 97, 103, 101, 58, 108, 97, 116, 101, 115, 116, 10>> (* "NAME\nmistral-7b-sage:latest\n" *)],
      [rc |-> 0, stdout |-> <<78, 65, 77, 69, 10, 115, 97, 103, 101, 95, 118, 48, 46, 57, 58, 108, 97, 116, 101, 115, 116, 10>> (* "NAME\nsage_v0.9:latest\n" *)],
      [rc |-> 1, stdout |-> <<>>] }

NotExited == -1

\* ensure_model_exists without its shutil.which check.
EnsureModelExistsNoWhich(flag, onPath, list, createRc) ==
    IF flag THEN
        [end |-> "skipped", touch |-> FALSE, out |-> <<"already_built">>]
    ELSE IF list.rc = 0 /\ Contains(list.stdout, DefaultModelName) THEN
        [end |-> "exists", touch |-> TRUE, out |-> <<"checking", "exists">>]
    ELSE IF createRc = 0 THEN
        [end |-> "built", touch |-> TRUE,
         out |-> <<"checking">>
                 \o (IF list.rc # 0 THEN <<"could_not_check">> ELSE <<>>)
                 \o <<"building", "created">>]
    ELSE
        [end |-> "build_failed", touch |-> FALSE,
         out |-> <<"checking">>
                 \o (IF list.rc # 0 THEN <<"could_not_check">> ELSE <<>>)
                 \o <<"building", "error_creating", "press_enter_to_exit">>]

\* ensure_model_exists(), up to its return or to where input("Press Enter to
\* exit...") waits: how it ends, whether it touches the flag file, what it
\* prints.
\* flag: the flag file exists; onPath: shutil.which finds ollama; list: the
\* result of `ollama list`; createRc: the return code of `ollama create`.
ensure_model_exists(flag, onPath, list, createRc) ==
    IF flag THEN
        [end |-> "skipped", touch |-> FALSE, out |-> <<"already_built">>]
    ELSE IF ~onPath THEN
        [end |-> "no_ollama", touch |-> FALSE,
         out |-> <<"not_installed", "press_enter_to_exit">>]
    ELSE IF list.rc = 0 /\ Contains(list.stdout, DefaultModelName) THEN
        [end |-> "exists", touch |-> TRUE, out |-> <<"checking", "exists">>]
    ELSE IF createRc = 0 THEN
        [end |-> "built", touch |-> TRUE,
         out |-> <<"checking">>
                 \o (IF list.rc # 0 THEN <<"could_not_check">> ELSE <<>>)
                 \o <<"building", "created">>]
    ELSE
        [end |-> "build_failed", touch |-> FALSE,
         out |-> <<"checking">>
                 \o (IF list.rc # 0 THEN <<"could_not_check">> ELSE <<>>)
                 \o <<"building", "error_creating", "press_enter_to_exit">>]

-----------------------------------------------------------------------------
(* The program: one run of main.py after another, each followed by the     *)
(* TUI it launches.                                                        *)

\* No pure function is being applied.
PureIdle == input = None /\ output = None

\* The state of a process that has just started.
Fresh ==
    /\ pc = "main"
    /\ stdout = <<>>
    /\ exitStatus = NotExited
    /\ enterPressed = FALSE
    /\ bootstrap = "none"
    /\ DEFAULT_ROOT = None
    /\ chat = None
    /\ screen = "closed"
    /\ dtPath = None
    /\ dismissed = None
    /\ lastEvent = None
    /\ uncaught = FALSE
    /\ picks = 0

Init ==
    /\ Fresh
    /\ runs = 1
    /\ flagFile = FALSE
    /\ ollamaOnPath \in BOOLEAN
    /\ fs \in [Downloads : FsKinds, Documents : FsKinds]
    /\ PureIdle

\* main() up to the return of ensure_model_exists or to its input().
Main ==
    /\ pc = "main"
    /\ \E list \in OllamaListResults, createRc \in {0, 1} :
         LET r == ensure_model_exists(flagFile, ollamaOnPath, list, createRc)
         IN  /\ stdout' = <<"banner">> \o r.out
             /\ flagFile' = (flagFile \/ r.touch)
             /\ bootstrap' = r.end
             /\ pc' = IF r.end \in {"no_ollama", "build_failed"}
                      THEN "input_exit" ELSE "wait_for_keypress"
    /\ UNCHANGED <<exitStatus, enterPressed, runs, ollamaOnPath, fs,
                   DEFAULT_ROOT, chat, screen, dtPath, dismissed, lastEvent,
                   uncaught, picks, input, output>>

\* input("Press Enter to exit...") returns, then sys.exit(1).
PressEnterToExit ==
    /\ pc = "input_exit"
    /\ enterPressed' = TRUE
    /\ exitStatus' = 1
    /\ pc' = "exited"
    /\ UNCHANGED <<stdout, runs, flagFile, ollamaOnPath, bootstrap, fs,
                   DEFAULT_ROOT, chat, screen, dtPath, dismissed, lastEvent,
                   uncaught, picks, input, output>>

\* Standard input is at its end: input() raises EOFError, which nothing
\* catches, and the interpreter exits with status 1.
InputEndOfFile ==
    /\ pc = "input_exit"
    /\ exitStatus' = 1
    /\ pc' = "exited"
    /\ UNCHANGED <<stdout, enterPressed, runs, flagFile, ollamaOnPath,
                   bootstrap, fs, DEFAULT_ROOT, chat, screen, dtPath,
                   dismissed, lastEvent, uncaught, picks, input, output>>

\* Standard input is no terminal: termios.tcgetattr raises in
\* wait_for_keypress, which nothing catches, and the interpreter exits with
\* status 1.
WaitForKeypressFails ==
    /\ pc = "wait_for_keypress"
    /\ stdout' = Append(stdout, "press_any_key")
    /\ exitStatus' = 1
    /\ pc' = "exited"
    /\ UNCHANGED <<enterPressed, runs, flagFile, ollamaOnPath, bootstrap, fs,
                   DEFAULT_ROOT, chat, screen, dtPath, dismissed, lastEvent,
                   uncaught, picks, input, output>>

\* wait_for_keypress()
wait_for_keypress ==
    /\ pc = "wait_for_keypress"
    /\ stdout' = Append(stdout, "press_any_key")
    /\ pc' = "launch_tui"
    /\ UNCHANGED <<exitStatus, enterPressed, runs, flagFile, ollamaOnPath,
                   bootstrap, fs, DEFAULT_ROOT, chat, screen, dtPath,
                   dismissed, lastEvent, uncaught, picks, input, output>>

\* launch_tui(): the oterm process starts and loads image_browser, which
\* sets DEFAULT_ROOT.
launch_tui ==
    /\ pc = "launch_tui"
    /\ stdout' = Append(stdout, "preparing")
    /\ DEFAULT_ROOT' = get_default_pick_dir(fs)
    /\ pc' = "tui_start"
    /\ UNCHANGED <<exitStatus, enterPressed, runs, flagFile, ollamaOnPath,
                   bootstrap, fs, chat, screen, dtPath, dismissed, lastEvent,
                   uncaught, picks, input, output>>

\* The TUI starts with create_sage_session(tabs).
CreateSageSession ==
    /\ pc = "tui_start"
    /\ chat' = create_sage_session
    /\ pc' = "tui"
    /\ UNCHANGED <<stdout, exitStatus, enterPressed, runs, flagFile,
                   ollamaOnPath, bootstrap, fs, DEFAULT_ROOT, screen, dtPath,
                   dismissed, lastEvent, uncaught, picks, input, output>>

\* The picker is pushed: ImageSelect.on_mount().
on_mount ==
    /\ pc = "tui"
    /\ screen = "closed"
    /\ ~uncaught
    /\ picks < MaxPicks
    /\ picks' = picks + 1
    /\ screen' = "open"
    /\ dtPath' = DEFAULT_ROOT
    /\ dismissed' = None
    /\ lastEvent' = [type |-> "Mount"]
    /\ UNCHANGED <<pc, stdout, exitStatus, enterPressed, runs, flagFile,
                   ollamaOnPath, bootstrap, fs, DEFAULT_ROOT, chat, uncaught,
                   input, output>>

\* p is the tree's root or lies under it.
Under(p, root) ==
    LET a == Resolve(p)
        b == Resolve(root)
    IN  Len(b) <= Len(a) /\ SubSeq(a, 1, Len(b)) = b

\* DirectoryTree.FileSelected for a file the tree shows.
FileSelected ==
    /\ pc = "tui"
    /\ screen = "open"
    /\ ~uncaught
    /\ IsDir(dtPath, fs)
    /\ \E file \in Files :
         /\ Under(file.path, dtPath)
         /\ LET did == on_file_selected(file.path, file.disk)
            IN  /\ uncaught' = did.raised
                /\ screen' = IF did.raised THEN screen ELSE "closed"
                /\ dismissed' = IF did.raised THEN dismissed ELSE did.value
         /\ lastEvent' = [type |-> "FileSelected", path |-> file.path]
    /\ UNCHANGED <<pc, stdout, exitStatus, enterPressed, runs, flagFile,
                   ollamaOnPath, bootstrap, fs, DEFAULT_ROOT, chat, dtPath,
                   picks, input, output>>

\* Input.Changed of the root input box.
RootChanged ==
    /\ pc = "tui"
    /\ screen = "open"
    /\ ~uncaught
    /\ \E value \in RootValues :
         /\ dtPath' = on_root_changed(dtPath, value, fs)
         /\ lastEvent' = [type |-> "RootChanged", value |-> value,
                          before |-> dtPath]
    /\ UNCHANGED <<pc, stdout, exitStatus, enterPressed, runs, flagFile,
                   ollamaOnPath, bootstrap, fs, DEFAULT_ROOT, chat, screen,
                   dismissed, uncaught, picks, input, output>>

\* The escape key: action_cancel().
Cancel ==
    /\ pc = "tui"
    /\ screen = "open"
    /\ ~uncaught
    /\ dismissed' = action_cancel.value
    /\ screen' = "closed"
    /\ lastEvent' = [type |-> "Cancel"]
    /\ UNCHANGED <<pc, stdout, exitStatus, enterPressed, runs, flagFile,
                   ollamaOnPath, bootstrap, fs, DEFAULT_ROOT, chat, dtPath,
                   uncaught, picks, input, output>>

\* The TUI ends; subprocess.run returns and so does main().
QuitTui ==
    /\ pc = "tui"
    /\ screen = "closed" \/ uncaught
    /\ pc' = "exited"
    /\ exitStatus' = 0
    /\ UNCHANGED <<stdout, enterPressed, runs, flagFile, ollamaOnPath,
                   bootstrap, fs, DEFAULT_ROOT, chat, screen, dtPath,
                   dismissed, lastEvent, uncaught, picks, input, output>>

\* main.py is started again; ollama may have been installed or removed.
RunAgain ==
    /\ pc = "exited"
    /\ runs < MaxRuns
    /\ runs' = runs + 1
    /\ ollamaOnPath' \in BOOLEAN
    /\ pc' = "main"
    /\ stdout' = <<>>
    /\ exitStatus' = NotExited
    /\ enterPressed' = FALSE
    /\ bootstrap' = "none"
    /\ DEFAULT_ROOT' = None
    /\ chat' = None
    /\ screen' = "closed"
    /\ dtPath' = None
    /\ dismissed' = None
    /\ lastEvent' = None
    /\ uncaught' = FALSE
    /\ picks' = 0
    /\ UNCHANGED <<flagFile, fs, input, output>>

Next ==
    \/ Main
    \/ PressEnterToExit
    \/ InputEndOfFile
    \/ wait_for_keypress
    \/ WaitForKeypressFails
    \/ launch_tui
    \/ CreateSageSession
    \/ on_mount
    \/ FileSelected
    \/ RootChanged
    \/ Cancel
    \/ QuitTui
    \/ RunAgain

Spec == Init /\ [][Next]_vars

-----------------------------------------------------------------------------
(* The pure functions, each applied to inputs drawn from bounded sets.     *)

\* No process runs.
AppOff(tag) ==
    /\ pc = tag
    /\ stdout = <<>>
    /\ exitStatus = NotExited
    /\ enterPressed = FALSE
    /\ runs = 0
    /\ flagFile = FALSE
    /\ ollamaOnPath = FALSE
    /\ bootstrap = "none"
    /\ fs = [Downloads |-> "absent", Documents |-> "absent"]
    /\ DEFAULT_ROOT = None
    /\ chat = None
    /\ screen = "closed"
    /\ dtPath = None
    /\ dismissed = None
    /\ lastEvent = None
    /\ uncaught = FALSE
    /\ picks = 0

\* The text lengths: few characters, and about MAX_CHARS.
TextLengths ==
    (0..LenSpread) \cup ((MAX_CHARS - LenSpread)..(MAX_CHARS + LenSpread))

TruncateInputs ==
    {GenText(n, r) : n \in TextLengths, r \in 0..(NumRotations - 1)}

InitTruncate ==
    /\ AppOff("truncate")
    /\ input \in TruncateInputs
    /\ output = None

\* body, truncated = _truncate_for_model(raw)
ApplyTruncate ==
    /\ pc = "truncate"
    /\ output = None
    /\ output' = LET t == _truncate_for_model(input, MAX_CHARS)
                 IN  [body |-> t[1], truncated |-> t[2]]
    /\ UNCHANGED <<appVars, input>>

NextTruncate == ApplyTruncate

SpecTruncate == InitTruncate /\ [][NextTruncate]_vars

\* The strings of at most n characters over the set of characters cs.
RECURSIVE StringsUpTo(_, _)
StringsUpTo(cs, n) ==
    IF n = 0 THEN {<<>>}
    ELSE LET shorter == StringsUpTo(cs, n - 1)
         IN  shorter \cup {Append(s, c) : s \in shorter, c \in cs}

\* Bodies: short texts, and texts that carry the truncation note or its end.
PromptBodies ==
    StringsUpTo({97, 10}, MaxBodyLen)
        \cup { TruncationNote,
               Tail(TruncationNote),
               <<120>> (* "x" *) \o TruncationNote \o <<121>> (* "y" *) }

PromptFilenames ==
    { <<109, 46, 116, 120, 116>> (* "m.txt" *),
      <<>> (* "" *),
      <<97, 10, 10, 91, 78, 111, 116, 101, 58, 32, 73, 110, 112, 117, 116, 32, 116, 114, 117, 110, 99, 97, 116, 101, 100, 32, 102, 111, 114, 32, 105, 110, 105, 116, 105, 97, 108, 32, 112, 97, 115, 115, 46, 93, 46, 116, 120, 116>> (* "a\n\n[Note: Input truncated for initial pass.].txt" *) }

InitPrompt ==
    /\ AppOff("prompt")
    /\ input \in [filename : PromptFilenames, body : PromptBodies,
                  truncated : BOOLEAN]
    /\ output = None

\* content = _build_manifest_prompt(filename, body, truncated)
ApplyPrompt ==
    /\ pc = "prompt"
    /\ output = None
    /\ output' = PyStr(_build_manifest_prompt(input.filename, input.body,
                                              input.truncated))
    /\ UNCHANGED <<appVars, input>>

NextPrompt == ApplyPrompt

SpecPrompt == InitPrompt /\ [][NextPrompt]_vars

\* The sequences of at most n elements of the set S.
RECURSIVE SeqsUpTo(_, _)
SeqsUpTo(S, n) ==
    IF n = 0 THEN {<<>>}
    ELSE LET shorter == SeqsUpTo(S, n - 1)
         IN  shorter \cup {Append(s, x) : s \in shorter, x \in S}

CellValues == {None, PyStr(<<65>> (* "A" *)), PyInt(0)}

WorkbookRows == SeqsUpTo(CellValues, MaxCols)
WorkbookSheets == SeqsUpTo(WorkbookRows, MaxRows)
Workbooks ==
    SeqsUpTo(WorkbookSheets, MaxSheets)
        \cup { << << <<PyStr(<<65>> (* "A" *)),
                       PyStr(<<66>> (* "B" *))>>,
                     <<PyStr(<<49>> (* "1" *)),
                       PyStr(<<50>> (* "2" *))>> >> >>,
               << << <<PyInt(12), PyBool(FALSE), PyStr(<<>>)>> >> >> }

WorkbookPaths ==
    { Div(ManifestDir, <<98, 111, 111, 107, 46, 120, 108, 115, 120>> (* "book.xlsx" *)),
      Div(ManifestDir, <<66, 111, 111, 107, 46, 88, 76, 83, 77>> (* "Book.XLSM" *)) }

InitLoad ==
    /\ AppOff("load")
    /\ input \in [path : WorkbookPaths, sheets : Workbooks]
    /\ output = None

\* raw = load_manifest_text(path)
ApplyLoad ==
    /\ pc = "load"
    /\ output = None
    /\ output' = load_manifest_text(input.path, XlsxFile(input.sheets))
    /\ UNCHANGED <<appVars, input>>

NextLoad == ApplyLoad

SpecLoad == InitLoad /\ [][NextLoad]_vars

-----------------------------------------------------------------------------
(* The properties. *)

\* What the selected path holds on disk.
DiskAt(path) == (CHOOSE file \in Files : file.path = path).disk

\* The suffixes load_manifest_text reads.
SupportedSuffixes ==
    TextSuffixes \cup {PdfSuffix, DocxSuffix} \cup XlsxSuffixes

\* hidden is a rendered prompt: the success variant of an IngestResult.
IsSuccessHidden(hidden) ==
    /\ StartsWith(hidden, PromptHeader \o BeginMarker)
    /\ EndsWith(hidden, EndMarker) \/ EndsWith(hidden, EndMarker \o TruncationNote)

\* hidden is an error description: the error variant of an IngestResult.
IsErrorHidden(hidden) ==
    StartsWith(hidden, ErrorPrefix) /\ EndsWith(hidden, CloseBracket)

\* launch_tui() has been called in this process.
TuiLaunched == \E i \in 1..Len(stdout) : stdout[i] = "preparing"

\* C1: _truncate_for_model(text) with the default limit MAX_CHARS returns
\* (text, false) when text has at most MAX_CHARS characters and otherwise
\* (the first MAX_CHARS characters of text, true); so the body never has more
\* than MAX_CHARS characters and truncated tells whether text had more.
C1_TruncateContract ==
    output # None =>
        LET text == input
            body == output.body
            truncated == output.truncated
        IN  /\ Len(text) <= MAX_CHARS => body = text /\ truncated = FALSE
            /\ Len(text) > MAX_CHARS =>
                 /\ Len(body) = MAX_CHARS
                 /\ \A i \in 1..MAX_CHARS : body[i] = text[i]
                 /\ truncated = TRUE
            /\ Len(body) <= MAX_CHARS
            /\ truncated = (Len(text) > MAX_CHARS)

\* A text longer than MAX_CHARS has been truncated.
C1_Witness ==
    output # None /\ Len(input) > MAX_CHARS /\ output.truncated

\* C2: a file-selected event never lets a failure escape: the screen is
\* dismissed with a record whose filename is the base name of the selected
\* path and whose hidden is the prompt built from the truncated extracted
\* text when extraction succeeds, and "[Error reading file '<filename>':
\* <error message>]" when it raises.
C2_FileSelectedAlwaysDismissesRecord ==
    lastEvent.type = "FileSelected" =>
        LET path == lastEvent.path
            raw == load_manifest_text(path, DiskAt(path))
        IN  /\ ~uncaught
            /\ screen = "closed"
            /\ dismissed.type = "dict"
            /\ dismissed.filename = path.parts[Len(path.parts)]
            /\ IF raw.ok
               THEN LET t == _truncate_for_model(raw.val, MAX_CHARS)
                    IN  dismissed.hidden =
                            _build_manifest_prompt(dismissed.filename, t[1], t[2])
               ELSE dismissed.hidden =
                        ErrorPrefix \o dismissed.filename \o ErrorInfix
                            \o raw.exc \o CloseBracket

\* A file that does not exist was selected and an error record came back.
C2_Witness ==
    /\ lastEvent.type = "FileSelected"
    /\ DiskAt(lastEvent.path).kind = "missing"
    /\ dismissed.type = "dict"
    /\ StartsWith(dismissed.hidden, ErrorPrefix \o dismissed.filename)

\* C3 as stated: the output of _build_manifest_prompt contains the truncation
\* note when truncated is true and does not contain it when truncated is
\* false, whatever the filename and the body.
C3_NoteContainedIffTruncated ==
    output # None =>
        (Contains(output.val, TruncationNote) <=> input.truncated)

\* C3 as amended: the output contains the truncation note when truncated is
\* true, and ends with it exactly when truncated is true.
C3_NoteAppendedIffTruncated ==
    output # None =>
        /\ input.truncated => Contains(output.val, TruncationNote)
        /\ EndsWith(output.val, TruncationNote) <=> input.truncated

\* An untruncated prompt contains the note although neither the filename nor
\* the body contains it.
C3_Witness ==
    /\ output # None
    /\ ~input.truncated
    /\ Contains(output.val, TruncationNote)
    /\ ~Contains(input.body, TruncationNote)
    /\ ~Contains(input.filename, TruncationNote)

\* C4: for a path whose lower-cased suffix is none of the supported ones,
\* load_manifest_text returns "[Unsupported file type: <ext>]" without
\* raising, and the pipeline goes on to a success record built from it.
C4_UnsupportedTypeIsSoft ==
    /\ \A file \in Files :
         Lower(Suffix(file.path)) \notin SupportedSuffixes =>
             load_manifest_text(file.path, file.disk) =
                 Ok(UnsupportedPrefix \o Lower(Suffix(file.path)) \o CloseBracket)
    /\ (/\ lastEvent.type = "FileSelected"
        /\ Lower(Suffix(lastEvent.path)) \notin SupportedSuffixes) =>
           /\ ~uncaught
           /\ dismissed.type = "dict"
           /\ IsSuccessHidden(dismissed.hidden)
           /\ ~IsErrorHidden(dismissed.hidden)
           /\ dismissed.hidden =
                  PromptHeader \o BeginMarker \o dismissed.filename
                      \o BeginMarkerEnd \o UnsupportedPrefix
                      \o Lower(Suffix(lastEvent.path)) \o CloseBracket
                      \o EndMarker

\* A file with an upper-case unsupported suffix was selected.
C4_Witness ==
    /\ lastEvent.type = "FileSelected"
    /\ Suffix(lastEvent.path) = <<46, 88, 77, 76>> (* ".XML" *)
    /\ dismissed.type = "dict"
    /\ Contains(dismissed.hidden, <<91, 85, 110, 115, 117, 112, 112, 111, 114, 116, 101, 100, 32, 102, 105, 108, 101, 32, 116, 121, 112, 101, 58, 32, 46, 120, 109, 108, 93>> (* "[Unsupported file type: .xml]" *))

\* The text the workbook is said to yield: only a missing or empty cell is
\* rendered as the empty string.
ClaimedWorkbookText(sheets) ==
    LET cellText(c) == IF c = None \/ c = PyStr(<<>>) THEN <<>> ELSE Str(c)
        rowText(row) == Join(Tab, [i \in 1..Len(row) |-> cellText(row[i])])
    IN  Join(Newline,
             Flatten([s \in 1..Len(sheets) |->
                         [r \in 1..Len(sheets[s]) |-> rowText(sheets[s][r])]]))

\* C5: for a workbook, load_manifest_text returns its rows, sheet after
\* sheet, joined by newlines, each row its cells joined by tabs, only missing
\* or empty cells rendered as the empty string.
C5_WorkbookTextAsClaimed ==
    output # None => output = Ok(ClaimedWorkbookText(input.sheets))

\* The first of home/Downloads, home/Documents, home that is a directory.
FirstExistingDirectory(f) ==
    IF IsDir(Div(Home, Downloads), f) THEN Div(Home, Downloads)
    ELSE IF IsDir(Div(Home, Documents), f) THEN Div(Home, Documents)
    ELSE Home

\* C6: the default browse root is the first existing directory among
\* home/Downloads, home/Documents, home, and is always a directory.
C6_DefaultRootIsFirstDirectory ==
    DEFAULT_ROOT # None =>
        /\ IsDir(DEFAULT_ROOT, fs)
        /\ DEFAULT_ROOT = FirstExistingDirectory(fs)

\* C7 as stated: every value the picker is dismissed with is an IngestResult
\* record, of exactly one of the success and the error variant.
C7_EveryDismissalIsIngestResult ==
    dismissed # None =>
        /\ dismissed.type = "dict"
        /\ IsSuccessHidden(dismissed.hidden) # IsErrorHidden(dismissed.hidden)

\* C7 as amended: every value a file-selected event dismisses the picker with
\* is an IngestResult record, of exactly one of the success and the error
\* variant; escape dismisses it with the empty string.
C7_DismissalByEvent ==
    dismissed # None =>
        /\ lastEvent.type \in {"FileSelected", "Cancel"}
        /\ lastEvent.type = "FileSelected" =>
             /\ dismissed.type = "dict"
             /\ DOMAIN dismissed = {"type", "filename", "hidden"}
             /\ IsSuccessHidden(dismissed.hidden) # IsErrorHidden(dismissed.hidden)
        /\ lastEvent.type = "Cancel" => dismissed = PyStr(<<>>)

\* Escape dismissed the picker.
C7_Witness ==
    lastEvent.type = "Cancel" /\ screen = "closed" /\ dismissed.type = "str"

\* What a run without ollama must look like.
ExitsWithGuidance ==
    /\ bootstrap = "no_ollama"
    /\ \E i \in 1..Len(stdout) : stdout[i] = "not_installed"
    /\ ~TuiLaunched
    /\ pc \in {"input_exit", "exited"}
    /\ stdout[Len(stdout)] = "press_enter_to_exit"
    /\ pc = "exited" => exitStatus # 0
    /\ enterPressed => pc = "exited"

\* The TUI is launched only after ensure_model_exists returned.
LaunchOnlyAfterBootstrap ==
    TuiLaunched => bootstrap \in {"skipped", "exists", "built"}

\* C8 as stated: in a run in which ollama is missing from PATH the process
\* prints guidance, asks for a key and exits non-zero without launching the
\* TUI; the TUI is launched only after the bootstrap succeeded.
C8_NoOllamaNeverLaunches ==
    /\ (~ollamaOnPath /\ pc # "main") => ExitsWithGuidance
    /\ LaunchOnlyAfterBootstrap

\* C8 as amended: the same, for the runs in which the flag file .model_built
\* does not exist.
C8_NoOllamaNoFlagNeverLaunches ==
    /\ (~ollamaOnPath /\ ~flagFile /\ pc # "main") => ExitsWithGuidance
    /\ LaunchOnlyAfterBootstrap

\* A run without ollama and without the flag file has exited.
C8_Witness ==
    ~ollamaOnPath /\ ~flagFile /\ pc = "exited" /\ exitStatus = 1

\* C9: a root-changed event whose value is not an existing directory leaves
\* the browse root as it was and raises nothing; the root becomes the value
\* only when that is a directory.
C9_RootChangedOnlyToDirectory ==
    lastEvent.type = "RootChanged" =>
        LET path == PathOf(lastEvent.value)
        IN  /\ ~uncaught
            /\ screen = "open"
            /\ IF Exists(path, fs) /\ KindOf(path, fs) = "dir"
               THEN dtPath = path
               ELSE dtPath = lastEvent.before

\* The path of a file was typed as the root, and the root stayed.
C9_Witness ==
    /\ lastEvent.type = "RootChanged"
    /\ KindOf(PathOf(lastEvent.value), fs) = "file"
    /\ dtPath = lastEvent.before

\* C10: the chat session create_sage_session makes uses the model
\* ensure_model_exists checks for.
C10_SessionUsesBootstrappedModel ==
    chat # None => chat.model = DefaultModelName

=============================================================================
